---- MODULE Spec2Model ----
(***************************************************************************)
(* Changelog promotion (republish-changelog.ts), extraction                *)
(* (extract-changelog.ts) and their helpers, as a state machine over the   *)
(* stored changelog document.                                              *)
(*                                                                         *)
(* Text representation.  A string without line breaks is a sequence of     *)
(* atoms (one-character strings for version labels, longer atomic strings  *)
(* for fixed words).  A document is the non-empty sequence of its lines,   *)
(* i.e. exactly what `text.split("\n")` returns: the text ends with a line *)
(* break iff the last line is the empty line.  A line is a record          *)
(*   k   : "title" "blank" "h2" "h3" "item" "rule" "link" "release"        *)
(*   br  : for h2, whether the label is written in square brackets         *)
(*   lab : the label of an h2 / link / release line                        *)
(*   x   : the rest of the line (date, item text, link target)             *)
(* Lines carry no leading or trailing blanks and no carriage returns, and  *)
(* all letters are lower case except the word Unreleased, so the `i` flag  *)
(* of the patterns and `\r?` never matter here.  No line contains "$", so  *)
(* the replacement strings handed to String.prototype.replace hold no      *)
(* replacement pattern ($$, $&, $1, ...) and are spliced in literally.     *)
(***************************************************************************)
EXTENDS Integers, Sequences, FiniteSets, TLC

\* ---------------------------------------------------------------- bounds
MaxSections == 2     \* sections (and rules) of an initial document
MaxLines == 24       \* documents longer than this are not promoted again
MaxCommits == 2      \* commits since the latest tag

\* ---------------------------------------------------------------- lines
Line(k, br, lab, x) == [k |-> k, br |-> br, lab |-> lab, x |-> x]

Blank == Line("blank", FALSE, <<>>, <<>>)
Title == Line("title", FALSE, <<>>, <<"# Changelog">>)
Rule == Line("rule", FALSE, <<>>, <<"---">>)
H2(lab, br, rest) == Line("h2", br, lab, rest)
H3(name) == Line("h3", FALSE, <<>>, <<name>>)
Item(txt) == Line("item", FALSE, <<>>, txt)
Link(lab, target) == Line("link", TRUE, lab, target)

Unreleased == <<"Unreleased">>
UnreleasedHeading == H2(Unreleased, TRUE, <<>>)

IsBlank(ln) == ln.k = "blank"

\* ---------------------------------------------------------------- helpers on sequences
Min(S) == CHOOSE m \in S : \A o \in S : m <= o

\* first index in lo..hi satisfying P, 0 when there is none (leftmost match)
FirstIdx(lo, hi, P(_)) ==
  IF \E i \in lo..hi : P(i) THEN CHOOSE i \in lo..hi : P(i) /\ \A o \in lo..(i - 1) : ~P(o) ELSE 0

IsPrefix(p, s) == Len(p) <= Len(s) /\ SubSeq(s, 1, Len(p)) = p

\* (variant: the text is not trimmed)
TrimNothing(ls) == ls

\* String.prototype.trim on a run of lines: leading and trailing blank lines go
Trim(ls) ==
  LET nb == {i \in 1..Len(ls) : ~IsBlank(ls[i])} IN
  IF nb = {} THEN <<>>
  ELSE SubSeq(ls, Min(nb), CHOOSE m \in nb : \A o \in nb : o <= m)

\* ---------------------------------------------------------------- lib/string-utils.ts
RegExpMeta == {"-", "/", "\\", "^", "$", "*", "+", "?", ".", "(", ")", "|", "[", "]", "{", "}"}

\* escapeRegExp: every metacharacter is prefixed by a backslash; the result is
\* a pattern, a sequence of atoms [c, esc]
escapeRegExp(input) == [i \in 1..Len(input) |-> [c |-> input[i], esc |-> input[i] \in RegExpMeta]]

\* one pattern atom against one character: an escaped atom is a literal, an
\* unescaped "." matches any character
AtomMatches(a, ch) == IF a.esc THEN ch = a.c ELSE (a.c = "." \/ ch = a.c)

\* the pattern matches a prefix of s (patterns here have fixed length)
PatPrefix(pat, s) ==
  Len(pat) <= Len(s) /\ \A i \in 1..Len(pat) : AtomMatches(pat[i], s[i])

PatExact(pat, s) == Len(pat) = Len(s) /\ PatPrefix(pat, s)

\* ---------------------------------------------------------------- lib/semver-utils.ts
Digit == {"0", "1", "2", "3"}
IdChar == Digit \cup {"r", "c", "v", "x", "-"}

RECURSIVE RunEnd(_, _, _)
\* index after the longest run of characters of C that starts at i
RunEnd(s, i, C) == IF i <= Len(s) /\ s[i] \in C THEN RunEnd(s, i + 1, C) ELSE i

\* [0-9A-Za-z-]+(?:\.[0-9A-Za-z-]+)* on s[i..j-1]
IsIdList(s, i, j) ==
  /\ i < j
  /\ s[i] # "." /\ s[j - 1] # "."
  /\ \A m \in i..(j - 2) : ~(s[m] = "." /\ s[m + 1] = ".")

\* /^v?(\d+)\.(\d+)\.(\d+)(?:-IDS)?(?:\+IDS)?$/
isValidSemver(version) ==
  LET n == Len(version)
      a0 == IF n >= 1 /\ version[1] = "v" THEN 2 ELSE 1
      a1 == RunEnd(version, a0, Digit)
      b1 == RunEnd(version, a1 + 1, Digit)
      c1 == RunEnd(version, b1 + 1, Digit)
      hasPre == c1 <= n /\ version[c1] = "-"
      p1 == IF hasPre THEN RunEnd(version, c1 + 1, IdChar \cup {"."}) ELSE c1
      hasBuild == p1 <= n /\ version[p1] = "+"
      q1 == IF hasBuild THEN RunEnd(version, p1 + 1, IdChar \cup {"."}) ELSE p1
  IN /\ a1 > a0 /\ a1 <= n /\ version[a1] = "."
     /\ b1 > a1 + 1 /\ b1 <= n /\ version[b1] = "."
     /\ c1 > b1 + 1
     /\ hasPre => IsIdList(version, c1 + 1, p1)
     /\ hasBuild => IsIdList(version, p1 + 1, q1)
     /\ q1 = n + 1

\* (variant: a valid version is returned as it was written)
validateOnly(version) == IF ~isValidSemver(version) THEN <<"!">> ELSE version

\* validateAndNormalizeSemver: the error is the value Invalid, otherwise the
\* version without one leading "v"
Invalid == <<"!">>
validateAndNormalizeSemver(version) ==
  IF ~isValidSemver(version) THEN Invalid
  ELSE IF version[1] = "v" THEN Tail(version) ELSE version

\* ---------------------------------------------------------------- lib/git-utils (getGitHubRepoUrl)
\* A URL is a sequence of atoms.  NoValue is an unset environment variable;
\* Fails is a `git config` call that throws.
NoValue == <<>>
Fails == <<"!">>

\* String.prototype.includes for the two words the code looks for
Includes(url, word) == \E i \in 1..Len(url) : url[i] = word

getGitHubRepoUrl(githubRepository, remoteUrl) ==
  IF githubRepository # NoValue THEN <<"https://", "github.com", "/">> \o githubRepository
  ELSE IF remoteUrl = Fails THEN <<>>
  ELSE LET r1 == IF IsPrefix(<<"git@", "github.com", ":">>, remoteUrl)
                 THEN <<"https://", "github.com", "/">> \o SubSeq(remoteUrl, 4, Len(remoteUrl))
                 ELSE remoteUrl
       IN IF Len(r1) > 0 /\ r1[Len(r1)] = ".git" THEN SubSeq(r1, 1, Len(r1) - 1) ELSE r1

\* ---------------------------------------------------------------- section location
\* ^##\s : a line that starts a section
IsH2(ln) == ln.k = "h2"

RECURSIVE RuleAhead(_, _)
\* ^\s*---\s*$ at the start of line j: blank lines, then a rule line
RuleAhead(d, j) ==
  IF j > Len(d) THEN FALSE
  ELSE IF d[j].k = "rule" THEN TRUE
  ELSE IF IsBlank(d[j]) THEN RuleAhead(d, j + 1)
  ELSE FALSE

\* the lookahead (?=^##\s|^\s*---\s*$|$(?![\s\S])) holds at the start of line j
Boundary(d, j) == IsH2(d[j]) \/ RuleAhead(d, j)

\* where the lazy content of the block whose heading is line i stops:
\* the first boundary line after i, or 0 for the end of the text
RECURSIVE NextBoundary(_, _)
NextBoundary(d, j) ==
  IF j > Len(d) THEN 0 ELSE IF Boundary(d, j) THEN j ELSE NextBoundary(d, j + 1)

BlockEnd(d, i) == NextBoundary(d, i + 1)

\* the lines of the content group of the block headed by line i
Content(d, i) ==
  LET e == BlockEnd(d, i) IN
  IF e = 0 THEN SubSeq(d, i + 1, Len(d)) ELSE SubSeq(d, i + 1, e - 1)

\* the text after the block, as lines (the empty text is one empty line)
AfterBlock(d, i) ==
  LET e == BlockEnd(d, i) IN
  IF e = 0 THEN <<Blank>> ELSE SubSeq(d, e, Len(d))

\* String.prototype.replace of the block headed by line i by the line-terminated
\* lines `by`
ReplaceBlock(d, i, by) == SubSeq(d, 1, i - 1) \o by \o AfterBlock(d, i)

\* [^\n]*?##\s*\[?Unreleased\]?[^\n]*\n : the heading line of the unreleasedBlock
\* pattern, which must be followed by a line break
unreleasedBlock(d) ==
  FirstIdx(1, Len(d) - 1, LAMBDA i : IsH2(d[i]) /\ IsPrefix(Unreleased, d[i].lab))

\* v?{escapedVersion} at the start of a label
VOptPrefix(pat, lab) ==
  \/ PatPrefix(pat, lab)
  \/ Len(lab) > 0 /\ lab[1] = "v" /\ PatPrefix(pat, Tail(lab))

VOptExact(pat, lab) ==
  \/ PatExact(pat, lab)
  \/ Len(lab) > 0 /\ lab[1] = "v" /\ PatExact(pat, Tail(lab))

\* ^##\s*\[?(?:v?{escapedVersion})\]?[^\n]*\n : the heading line of versionEntryRegex
versionEntryRegex(d, normalizedVersion) ==
  LET escapedVersion == escapeRegExp(normalizedVersion) IN
  FirstIdx(1, Len(d) - 1, LAMBDA i : IsH2(d[i]) /\ VOptPrefix(escapedVersion, d[i].lab))

Null == <<>>

\* findExistingVersionHeading: ^##\s*\[(v?{escapedVersion})\] , the captured label
findExistingVersionHeading(changelog, normalizedVersion) ==
  LET escapedVersion == escapeRegExp(normalizedVersion)
      i == FirstIdx(1, Len(changelog),
                    LAMBDA j : /\ IsH2(changelog[j]) /\ changelog[j].br
                               /\ VOptExact(escapedVersion, changelog[j].lab))
  IN IF i = 0 THEN Null ELSE changelog[i].lab

\* getFirstVersionHeading: the first ^##\s*\[(.*?)\] whose label is not Unreleased
getFirstVersionHeading(changelog) ==
  LET i == FirstIdx(1, Len(changelog),
                    LAMBDA j : /\ IsH2(changelog[j]) /\ changelog[j].br
                               /\ changelog[j].lab # <<>> /\ changelog[j].lab # Unreleased)
  IN IF i = 0 THEN Null ELSE changelog[i].lab

\* (variant: the label mirrors the caller's version string only)
inferFromInputOnly(versionInput, normalizedVersion, changelog) ==
  IF versionInput[1] = "v" THEN <<"v">> \o normalizedVersion ELSE normalizedVersion

inferVersionHeadingLabel(versionInput, normalizedVersion, changelog) ==
  LET firstHeading == getFirstVersionHeading(changelog) IN
  IF firstHeading # Null
  THEN (IF firstHeading[1] = "v" THEN <<"v">> \o normalizedVersion ELSE normalizedVersion)
  ELSE (IF versionInput[1] = "v" THEN <<"v">> \o normalizedVersion ELSE normalizedVersion)

\* ---------------------------------------------------------------- updateReferenceLinks
IsLinkFor(ln, label) == ln.k = "link" /\ ln.lab = label

\* labelRegexes.find: the first label of the list whose pattern matches the line
MatchingLabel(ln, labels) ==
  LET i == FirstIdx(1, Len(labels), LAMBDA j : IsLinkFor(ln, labels[j]))
  IN IF i = 0 THEN Null ELSE labels[i]

\* (variant: the labels are not deduplicated)
NotUnique(labels) == labels

\* [...new Set(labels)] for the two-element lists the promoter passes
Unique(labels) ==
  IF Len(labels) = 2 /\ labels[1] = labels[2] THEN <<labels[1]>> ELSE labels

RECURSIVE AppendMissing(_, _, _, _)
AppendMissing(lines, labels, found, linkTarget) ==
  IF labels = <<>> THEN lines
  ELSE AppendMissing(IF Head(labels) \in found THEN lines
                     ELSE Append(lines, Link(Head(labels), linkTarget)),
                     Tail(labels), found, linkTarget)

updateReferenceLinks(changelog, versionLabels, linkTarget, unreleasedLine) ==
  LET uniqueLabels == Unique(versionLabels)
      updated == [i \in 1..Len(changelog) |->
                    IF changelog[i].k # "link" THEN changelog[i]
                    ELSE IF IsLinkFor(changelog[i], Unreleased) THEN unreleasedLine
                    ELSE IF MatchingLabel(changelog[i], uniqueLabels) # Null
                         THEN Link(MatchingLabel(changelog[i], uniqueLabels), linkTarget)
                         ELSE changelog[i]]
      foundUnreleasedLink == \E i \in 1..Len(changelog) : IsLinkFor(changelog[i], Unreleased)
      foundLabels == {lb \in {uniqueLabels[j] : j \in 1..Len(uniqueLabels)} :
                        \E i \in 1..Len(changelog) :
                          changelog[i].k = "link" /\ MatchingLabel(changelog[i], uniqueLabels) = lb}
      withUnreleased == IF foundUnreleasedLink THEN updated ELSE Append(updated, unreleasedLine)
  IN AppendMissing(withUnreleased, uniqueLabels, foundLabels, linkTarget)

\* ---------------------------------------------------------------- republishChangelog
NoError == "none"
InvalidSemver == "Invalid semantic version"
NoUnreleased == "No [Unreleased] section found"
EmptyUnreleased == "[Unreleased] section is empty"
AlreadyExistsWarning == "already exists in changelog but [Unreleased] has content"

\* the result of one call: the error thrown (or none), the document as stored
\* afterwards, whether writeFileSync was called, the warn / log calls, the
\* branch taken, and the text as it was handed to updateReferenceLinks
Outcome(err, d, wrote, warns, logs, path, rewritten) ==
  [err |-> err, doc |-> d, wrote |-> wrote, warns |-> warns, logs |-> logs, path |-> path,
   rewritten |-> rewritten]

\* (variant: the tag is the version as the caller wrote it)
tagAsGiven(version, normalizedVersion) == version

\* line 136: the tag the links point at
tagOf(version, normalizedVersion) ==
  IF version[1] = "v" THEN version ELSE <<"v">> \o normalizedVersion

\* (variant: the content is never pushed)
newEntryLinesNoContent(versionHeadingLabel, date, unreleasedContent) ==
  <<H2(versionHeadingLabel, TRUE, <<" - ">> \o date), Blank, Blank>>

\* lines 187-191, joined and followed by the line break of line 195
newEntryLines(versionHeadingLabel, date, unreleasedContent) ==
  <<H2(versionHeadingLabel, TRUE, <<" - ">> \o date), Blank>> \o unreleasedContent \o <<Blank>>

\* lines 199-211: the target of the version links and the Unreleased link line
linkTargetOf(repoUrl, tag) ==
  IF Includes(repoUrl, "github.com") THEN repoUrl \o <<"/releases/tag/">> \o tag
  ELSE IF Includes(repoUrl, "gitlab") THEN repoUrl \o <<"/-/tags/">> \o tag
  ELSE repoUrl

\* (variant: the Unreleased line points at the page of the tag)
unreleasedLineToTag(repoUrl, tag) == Link(Unreleased, linkTargetOf(repoUrl, tag))

unreleasedLineOf(repoUrl, tag) ==
  IF Includes(repoUrl, "github.com")
  THEN Link(Unreleased, repoUrl \o <<"/compare/">> \o tag \o <<"...HEAD">>)
  ELSE IF Includes(repoUrl, "gitlab")
  THEN Link(Unreleased, repoUrl \o <<"/-/compare/">> \o tag \o <<"...HEAD">>)
  ELSE Link(Unreleased, repoUrl)

republishChangelog(version, stored, date, githubRepository, remoteUrl) ==
  LET normalizedVersion == validateAndNormalizeSemver(version)
      tag == tagOf(version, normalizedVersion)
      repoUrl == getGitHubRepoUrl(githubRepository, remoteUrl)
      repoWarns == IF githubRepository = NoValue /\ remoteUrl = Fails
                   THEN {"Could not determine repository URL"} ELSE {}
      changelog == stored
      u == unreleasedBlock(changelog)
      prefix == changelog[u]
      unreleasedContent == Trim(Content(changelog, u))
      existingHeadingLabel == findExistingVersionHeading(changelog, normalizedVersion)
      versionExists == existingHeadingLabel # Null
      versionHeadingLabel ==
        IF versionExists THEN existingHeadingLabel
        ELSE inferVersionHeadingLabel(version, normalizedVersion, changelog)
      \* lines 165-179: the version exists and Unreleased has content
      versionMatch == versionEntryRegex(changelog, normalizedVersion)
      newVersionContent ==
        <<changelog[versionMatch], Blank>> \o unreleasedContent \o <<Blank>>
      merged1 == ReplaceBlock(changelog, versionMatch, newVersionContent)
      u1 == unreleasedBlock(merged1)
      merged ==
        IF versionMatch = 0 THEN changelog
        ELSE IF u1 = 0 THEN merged1
        ELSE ReplaceBlock(merged1, u1, <<prefix, Blank>>)
      \* lines 185-196: a new entry
      created ==
        ReplaceBlock(changelog, u,
                     <<prefix, Blank>> \o newEntryLines(versionHeadingLabel, date, unreleasedContent))
      rewritten == IF versionExists THEN merged ELSE created
      versionLinkLabels == <<tag, versionHeadingLabel>>
      final == updateReferenceLinks(rewritten, versionLinkLabels, linkTargetOf(repoUrl, tag),
                                    unreleasedLineOf(repoUrl, tag))
  IN
  IF normalizedVersion = Invalid
    THEN Outcome(InvalidSemver, stored, FALSE, {}, {"Republishing"}, "throw", stored)
  ELSE IF u = 0
    THEN Outcome(NoUnreleased, stored, FALSE, repoWarns, {"Republishing"}, "throw", stored)
  ELSE IF versionExists /\ unreleasedContent = <<>>
    THEN Outcome(NoError, stored, FALSE, repoWarns, {"Republishing", "Nothing to do"}, "noop", stored)
  ELSE IF versionExists
    THEN Outcome(NoError, final, TRUE, repoWarns \cup {AlreadyExistsWarning},
                 {"Republishing", "Updating existing entry", "updated"}, "merge", rewritten)
  ELSE IF unreleasedContent = <<>>
    THEN Outcome(EmptyUnreleased, stored, FALSE, repoWarns, {"Republishing"}, "throw", stored)
  ELSE Outcome(NoError, final, TRUE, repoWarns, {"Republishing", "Moving", "updated"}, "create", rewritten)

\* ---------------------------------------------------------------- extractChangelog
NoSection == "No [v] or [] section found"
NoEntry == "No changelog entry found"

ReleaseTitle(tag) == Line("release", FALSE, tag, <<"# Release ">>)

\* (variant: only the v-prefixed alternative of the pattern)
versionBlockWithV(d, normalizedVersion) ==
  FirstIdx(1, Len(d) - 1,
           LAMBDA i : IsH2(d[i]) /\ PatPrefix(escapeRegExp(<<"v">> \o normalizedVersion), d[i].lab))

\* [^\n]*?##\s*\[?(?:v{version}|{version})\]?[^\n]*\r?\n : the heading line of
\* versionBlock
versionBlock(d, normalizedVersion) ==
  LET withV == escapeRegExp(<<"v">> \o normalizedVersion)
      bare == escapeRegExp(normalizedVersion)
  IN FirstIdx(1, Len(d) - 1,
              LAMBDA i : IsH2(d[i]) /\ (PatPrefix(withV, d[i].lab) \/ PatPrefix(bare, d[i].lab)))

\* the result: the error thrown (or none) and the text returned, as lines
extractChangelog(version, changelog) ==
  LET normalizedVersion == validateAndNormalizeSemver(version)
      tag == IF version[1] = "v" THEN version ELSE <<"v">> \o normalizedVersion
      m == versionBlock(changelog, normalizedVersion)
      versionContent == Trim(Content(changelog, m))
      entry == Trim(<<changelog[m]>> \o Content(changelog, m))
  IN
  IF normalizedVersion = Invalid THEN [err |-> InvalidSemver, out |-> <<>>]
  ELSE IF m = 0 THEN [err |-> NoSection, out |-> <<>>]
  ELSE IF versionContent = <<>> THEN [err |-> NoEntry, out |-> <<>>]
  ELSE [err |-> NoError, out |-> <<ReleaseTitle(tag), Blank>> \o entry]

\* ---------------------------------------------------------------- the documents and inputs explored
V123 == <<"1", ".", "2", ".", "3">>
V123rc == <<"1", ".", "2", ".", "3", "-", "r", "c">>
V100 == <<"1", ".", "0", ".", "0">>
WithV(v) == <<"v">> \o v
BadVersion == <<"1", ".", "2">>

Today == <<"2024-01-15">>
Earlier == <<"2024-01-01">>

\* what a release wrote before: a section with one line of its own
OldItem(lab) == Item(<<"- change in ">> \o lab)
VersionSection(lab, br) == <<H2(lab, br, <<" - ">> \o Earlier), Blank, OldItem(lab), Blank>>

AddedItem == Item(<<"- new feature">>)
FixedItem == Item(<<"- bug fix">>)

\* the bodies under the Unreleased heading: nothing, white space only, one
\* Added line, and an Added and a Fixed line with an empty line between
UnreleasedBodies ==
  { <<>>, <<Blank>>,
    <<Blank, H3("### Added"), AddedItem, Blank>>,
    <<Blank, H3("### Added"), AddedItem, Blank, H3("### Fixed"), FixedItem, Blank>> }

\* a block is a group name (one block per group in a document) and its lines
Blocks ==
  {[g |-> "unreleased", ls |-> <<UnreleasedHeading>> \o b] : b \in UnreleasedBodies}
  \cup {[g |-> "1.2.3", ls |-> VersionSection(WithV(V123), TRUE)],
        [g |-> "1.2.3", ls |-> VersionSection(V123, TRUE)],
        [g |-> "1.2.3", ls |-> VersionSection(V123, FALSE)],
        [g |-> "1.2.3", ls |-> <<H2(WithV(V123), TRUE, <<" - ">> \o Earlier), Blank>>],
        [g |-> "1.2.3-rc", ls |-> VersionSection(V123rc, TRUE)],
        [g |-> "1.0.0", ls |-> VersionSection(WithV(V100), TRUE)],
        [g |-> "rule", ls |-> <<Rule, Blank>>]}

RECURSIVE Flatten(_)
Flatten(bs) == IF bs = <<>> THEN <<>> ELSE Head(bs).ls \o Flatten(Tail(bs))

BlockLists ==
  UNION {{bs \in [1..n -> Blocks] : \A i, j \in 1..n : i # j => bs[i].g # bs[j].g}
         : n \in 0..MaxSections}

OldTarget == <<"https://", "example.com", "/old">>

\* the reference links a document ends with: none, or one per label and the
\* final line break
LinkBlocks ==
  { <<>>,
    <<Link(Unreleased, OldTarget), Link(WithV(V123), OldTarget), Link(WithV(V100), OldTarget),
      Blank>> }

\* documents with the section of a prerelease of 1.2.3 next to the section of
\* 1.2.3, after an Unreleased section with one Added line
PrereleaseDocs ==
  { <<Title, Blank, UnreleasedHeading, Blank, H3("### Added"), AddedItem, Blank>> \o rest \o lb :
      rest \in { VersionSection(V123rc, TRUE) \o VersionSection(V123, TRUE),
                 VersionSection(V123, TRUE) \o VersionSection(V123rc, TRUE) },
      lb \in LinkBlocks }

InitialDocs ==
  {<<Title, Blank>> \o Flatten(bs) \o lb : bs \in BlockLists, lb \in LinkBlocks}
  \cup PrereleaseDocs

\* GITHUB_REPOSITORY and the remote URL of the working copy
Envs ==
  { [repo |-> <<"owner/repo">>, remote |-> Fails],
    [repo |-> NoValue, remote |-> <<"https://", "gitlab", ".com/", "owner/repo", ".git">>],
    [repo |-> NoValue, remote |-> <<"https://", "git.example.com/", "owner/repo", ".git">>],
    [repo |-> NoValue, remote |-> Fails] }

PromoteVersions == {V123, WithV(V123), WithV(V100), BadVersion}
ExtractVersions == {V123}

\* the commit messages (%B) explored
CommitBodies ==
  { <<"feat", ":", " ", "add", " ", "x">>,
    <<"feat", "(", "api", ")", "!", ":", " ", "new", " ", " ", "api">>,
    <<"FIX", ":", " ", "bug", "\n", "ci", ":", " ", "pipeline">>,
    <<"CI", "(", "build", ")", "!", ":", " ", "drop", " ", "node">>,
    <<"[skip-changelog]", " ", "feat", ":", " ", "x">>,
    <<"feat", ":", " ", "y", "\n", "\n", "notes", " ", "[SKIP-CHANGELOG]", "\n">>,
    <<"update", " ", "readme", "\n">>,
    <<"feat", ":", "\n", "fix", ":", " ", "bug">>,
    <<"docs", ":", "\n", "plain", " ", "words">>,
    <<"constructor", ":", " ", "defaults">>,
    <<"remove", ":", " ", "old", "\n", "security", "(", "tls", ")", ":", " ", "patch", "\n",
      "plain", " ", "line">>,
    <<"weird", ":", " ", "thing">>,
    <<"release", ":", " ", "cut", "\n", "hotfix", ":", " ", "urgent">> }

\* %H of the commit made when the log holds k records
Hash(k) == <<"c", <<"0", "1", "2", "3", "4", "5", "6", "7", "8", "9">>[k + 1],
             "a", "b", "1", "2", "3", "4", "5">>

\* the documents populate starts from: with an Unreleased section before a
\* version section, with a version section only, the empty text, a title
\* only, a title after an empty first line, with an Unreleased section before
\* a version section whose heading has no brackets, with the Unreleased
\* section last and reference links after it, with an Unreleased heading
\* without brackets
PopulateDocs ==
  { <<Title, Blank, UnreleasedHeading, Blank, Item(<<"- old line">>), Blank>>
      \o VersionSection(WithV(V100), TRUE),
    <<Title, Blank>> \o VersionSection(WithV(V100), TRUE),
    <<Blank>>,
    <<Title>>,
    <<Blank, Title, Blank>>,
    <<Title, Blank, UnreleasedHeading, Blank, Item(<<"- old line">>), Blank>>
      \o VersionSection(V100, FALSE),
    <<Title, Blank>> \o VersionSection(WithV(V100), TRUE)
      \o <<UnreleasedHeading, Blank, Item(<<"- old line">>), Blank,
           Link(Unreleased, OldTarget), Link(WithV(V100), OldTarget), Blank>>,
    <<Title, Blank, H2(Unreleased, FALSE, <<>>), Blank, Item(<<"- old line">>), Blank>>
      \o VersionSection(WithV(V100), TRUE) }

PopulateEnvs ==
  { [repo |-> <<"owner/repo">>, remote |-> Fails],
    [repo |-> NoValue, remote |-> Fails] }

\* ---------------------------------------------------------------- lib/commit-parser.ts
\* Commit text (the output of git log, a commit body) is a sequence of atoms:
\* a word of \w characters is one atom and two words are never adjacent; the
\* characters " ", "\n", "(", ")", "!", ":", "|", "." and "-" are atoms of
\* their own; the skip marker and the end-of-record mark are atoms; a hash is
\* a run of one-character atoms.
NonWord ==
  {" ", "\n", "(", ")", "!", ":", "|", ".", "-", "[skip-changelog]", "[SKIP-CHANGELOG]", "|||END|||"}

IsWord(a) == a \notin NonWord
IsSpace(a) == a \in {" ", "\n"}

\* String.prototype.toLowerCase on the atoms that hold capital letters
Capitals ==
  ("FIX" :> "fix") @@ ("CI" :> "ci") @@ ("Feat" :> "feat") @@ ("Constructor" :> "constructor")
  @@ ("[SKIP-CHANGELOG]" :> "[skip-changelog]")

toLowerCase(a) == IF a \in DOMAIN Capitals THEN Capitals[a] ELSE a

RECURSIVE SkipSpace(_, _)
\* \s* from index i: the index after the run of white space
SkipSpace(b, i) == IF i <= Len(b) /\ IsSpace(b[i]) THEN SkipSpace(b, i + 1) ELSE i

RECURSIVE LineEnd(_, _)
\* .* from index i: the index of the next line break at or after i, or Len + 1
LineEnd(b, i) == IF i <= Len(b) /\ b[i] # "\n" THEN LineEnd(b, i + 1) ELSE i

RECURSIVE ScopeEnd(_, _)
\* [^)]* from index i: the index of the next ")" at or after i, or 0
ScopeEnd(b, i) == IF i > Len(b) THEN 0 ELSE IF b[i] = ")" THEN i ELSE ScopeEnd(b, i + 1)

\* String.prototype.trim on atoms
TrimSpace(s) ==
  LET ns == {i \in 1..Len(s) : ~IsSpace(s[i])} IN
  IF ns = {} THEN <<>> ELSE SubSeq(s, Min(ns), CHOOSE m \in ns : \A o \in ns : o <= m)

RECURSIVE CollapseSpace(_)
\* replace(/\s+/g, ' ')
CollapseSpace(s) ==
  IF s = <<>> THEN <<>>
  ELSE IF IsSpace(Head(s)) THEN <<" ">> \o CollapseSpace(SubSeq(s, SkipSpace(s, 1), Len(s)))
  ELSE <<Head(s)>> \o CollapseSpace(Tail(s))

\* CONVENTIONAL_COMMIT_REGEX /^(\w+)(?:\(([^)]+)\))?(!)?\s*:\s*(.+)/m tried at
\* the line start p of b.  Every quantifier has one way to match: \w+ is the
\* word at p, the scope runs to the first ")", and each \s* takes the whole
\* run of white space, line breaks included; only when the text ends after the
\* last \s* does it give back atoms, down to the last blank, for (.+) to take.
MatchAt(b, p) ==
  LET n == Len(b)
      a1 == p + 1
      close == IF a1 <= n /\ b[a1] = "(" THEN ScopeEnd(b, a1 + 1) ELSE 0
      hasScope == close > a1 + 1
      a2 == IF hasScope THEN close + 1 ELSE a1
      hasBang == a2 <= n /\ b[a2] = "!"
      a3 == IF hasBang THEN a2 + 1 ELSE a2
      a4 == SkipSpace(b, a3)
      hasColon == a4 <= n /\ b[a4] = ":"
      a5 == SkipSpace(b, a4 + 1)
      blanks == {q \in (a4 + 1)..n : b[q] = " "}
      from == IF a5 <= n THEN a5
              ELSE IF blanks = {} THEN 0 ELSE CHOOSE q \in blanks : \A o \in blanks : o <= q
      ok == IsWord(b[p]) /\ hasColon /\ from # 0
      end == IF ok THEN LineEnd(b, from) ELSE p
  IN [ok |-> ok,
      type |-> b[p],
      scope |-> IF hasScope THEN SubSeq(b, a1 + 1, close - 1) ELSE <<>>,
      breaking |-> hasBang,
      description |-> IF ok THEN SubSeq(b, from, end - 1) ELSE <<>>,
      end |-> end]

\* ---------------------------------------------------------------- populate-unreleased-changelog.ts
\* a CommitPart; the scope <<>> stands for a scope that is undefined or empty
CommitPart(type, scope, description, sha, breaking) ==
  [type |-> type, scope |-> scope, description |-> description, sha |-> sha, breaking |-> breaking]

RECURSIVE ExecFrom(_, _, _)
\* the loop of lines 56-68: exec with the flags gm from lastIndex p, a line start
ExecFrom(commitBody, p, sha) ==
  IF p > Len(commitBody) THEN <<>>
  ELSE LET match == MatchAt(commitBody, p) IN
       IF ~match.ok THEN ExecFrom(commitBody, LineEnd(commitBody, p) + 1, sha)
       ELSE (IF TrimSpace(match.description) # <<>>
             THEN <<CommitPart(match.type, TrimSpace(match.scope),
                               CollapseSpace(TrimSpace(match.description)), sha, match.breaking)>>
             ELSE <<>>)
            \o ExecFrom(commitBody, match.end + 1, sha)

extractConventionalCommitParts(commitBody, sha) == ExecFrom(commitBody, 1, sha)

\* the own keys of typeMap (lines 77-103); the value "false" is the boolean false
Ignored == "false"
typeMap ==
  ("feat" :> "### Added") @@ ("feature" :> "### Added") @@ ("add" :> "### Added")
  @@ ("fix" :> "### Fixed") @@ ("bugfix" :> "### Fixed")
  @@ ("security" :> "### Security")
  @@ ("perf" :> "### Changed") @@ ("refactor" :> "### Changed") @@ ("style" :> "### Changed")
  @@ ("docs" :> "### Changed") @@ ("test" :> "### Changed") @@ ("chore" :> "### Changed")
  @@ ("build" :> "### Changed") @@ ("deps" :> "### Changed") @@ ("dependency" :> "### Changed")
  @@ ("dependencies" :> "### Changed") @@ ("revert" :> "### Changed")
  @@ ("remove" :> "### Removed") @@ ("removed" :> "### Removed")
  @@ ("delete" :> "### Removed") @@ ("deleted" :> "### Removed")
  @@ ("ci" :> Ignored) @@ ("release" :> Ignored) @@ ("hotfix" :> Ignored)
  @@ ("misc" :> "### Changed")

\* typeMap is an object literal, so a lookup also finds what it inherits from
\* Object.prototype; of those names only two are their own lower-case form.
\* The values (a function, an object) are written as the property key they
\* become in groupedParts.
ObjectPrototype ==
  ("constructor" :> "function Object() { [native code] }") @@ ("__proto__" :> "[object Object]")

normalizeCommitType(type) ==
  LET key == toLowerCase(type) IN
  IF key \in DOMAIN typeMap THEN typeMap[key]
  ELSE IF key \in DOMAIN ObjectPrototype THEN ObjectPrototype[key]
  ELSE "### Changed"

EndMark == "|||END|||"

RECURSIVE Split(_, _)
\* String.prototype.split on one atom
Split(s, sep) ==
  LET i == FirstIdx(1, Len(s), LAMBDA j : s[j] = sep) IN
  IF i = 0 THEN <<s>> ELSE <<SubSeq(s, 1, i - 1)>> \o Split(SubSeq(s, i + 1, Len(s)), sep)

\* (variant: the marker counts only at the start of the message)
HasSkipMarkerAtStart(body) == body # <<>> /\ toLowerCase(body[1]) = "[skip-changelog]"

\* /\[skip-changelog\]/i.test(body)
HasSkipMarker(body) == \E i \in 1..Len(body) : toLowerCase(body[i]) = "[skip-changelog]"

\* sha.trim().substring(0, 7)
ShortSha(sha) == LET t == TrimSpace(sha) IN SubSeq(t, 1, IF Len(t) < 7 THEN Len(t) ELSE 7)

\* lines 120-143: the parts one entry adds to allParts
PartsOfEntry(entry) ==
  LET bar == FirstIdx(1, Len(entry), LAMBDA j : entry[j] = "|")
      sha == IF bar = 0 THEN entry ELSE SubSeq(entry, 1, bar - 1)
      body == IF bar = 0 THEN <<>> ELSE TrimSpace(SubSeq(entry, bar + 1, Len(entry)))
      shortSha == ShortSha(sha)
      parts == extractConventionalCommitParts(body, shortSha)
      firstLine == TrimSpace(SubSeq(body, 1, LineEnd(body, 1) - 1))
  IN IF HasSkipMarker(body) THEN <<>>
     ELSE IF sha = <<>> \/ body = <<>> THEN <<>>
     ELSE IF parts # <<>> THEN parts
     ELSE IF firstLine # <<>> THEN <<CommitPart("misc", <<>>, firstLine, shortSha, FALSE)>>
     ELSE <<>>

RECURSIVE PartsOfEntries(_)
PartsOfEntries(commitEntries) ==
  IF commitEntries = <<>> THEN <<>>
  ELSE PartsOfEntry(Head(commitEntries)) \o PartsOfEntries(Tail(commitEntries))

\* lines 116-144
allPartsOf(gitOutput) ==
  PartsOfEntries(SelectSeq(Split(gitOutput, EndMark), LAMBDA entry : TrimSpace(entry) # <<>>))

sectionOrder == <<"### Added", "### Fixed", "### Changed", "### Removed", "### Security">>

\* the heading of line 170 and the indicator of line 187 (the warning sign,
\* U+26A0 U+FE0F, is written out)
BreakingHeading == H3("### (warning) BREAKING CHANGES")
BreakingIndicator == " (warning) BREAKING"
NoChangesYet == Line("text", FALSE, <<>>, <<"No changes yet.">>)

scopePartOf(part) == IF part.scope # <<>> THEN <<" (">> \o part.scope \o <<")">> ELSE <<>>

\* (variant: the reference is a link whatever the repository URL)
linkPartAlwaysLink(part, repoUrl) ==
  <<" ([">> \o part.sha \o <<"](">> \o repoUrl \o <<"/commit/">> \o part.sha \o <<"))">>

linkPartOf(part, repoUrl) ==
  IF repoUrl # <<>>
  THEN <<" ([">> \o part.sha \o <<"](">> \o repoUrl \o <<"/commit/">> \o part.sha \o <<"))">>
  ELSE <<" (">> \o part.sha \o <<")">>

\* lines 172-176
BreakingLine(part, repoUrl) ==
  Item(<<"- ">> \o part.description \o scopePartOf(part) \o linkPartOf(part, repoUrl))

\* (variant: the line of a category block never carries the indicator)
ChangeLineNoIndicator(part, repoUrl) ==
  Item(<<"- ">> \o part.description \o scopePartOf(part) \o linkPartOf(part, repoUrl))

\* lines 185-190
ChangeLine(part, repoUrl) ==
  Item(<<"- ">> \o part.description \o scopePartOf(part)
       \o (IF part.breaking THEN <<BreakingIndicator>> ELSE <<>>) \o linkPartOf(part, repoUrl))

MapSeq(s, F(_)) == [i \in 1..Len(s) |-> F(s[i])]

\* lines 149-153
breakingChangesOf(allParts) == SelectSeq(allParts, LAMBDA part : part.breaking)

\* lines 155-162: groupedParts[sectionName]
groupedPartsOf(allParts, sectionName) ==
  SelectSeq(allParts, LAMBDA part : normalizeCommitType(part.type) = sectionName)

RECURSIVE CategoryBlocks(_, _, _)
\* lines 181-194
CategoryBlocks(titles, allParts, repoUrl) ==
  IF titles = <<>> THEN <<>>
  ELSE (IF groupedPartsOf(allParts, Head(titles)) # <<>>
        THEN <<H3(Head(titles))>>
             \o MapSeq(groupedPartsOf(allParts, Head(titles)), LAMBDA part : ChangeLine(part, repoUrl))
             \o <<Blank>>
        ELSE <<>>)
       \o CategoryBlocks(Tail(titles), allParts, repoUrl)

\* lines 146-196: the string built from allParts, as lines
sectionsOf(allParts, repoUrl) ==
  LET breakingChanges == breakingChangesOf(allParts)
      sections ==
        (IF breakingChanges # <<>>
         THEN <<BreakingHeading>>
              \o MapSeq(breakingChanges, LAMBDA part : BreakingLine(part, repoUrl))
              \o <<Blank>>
         ELSE <<>>)
        \o CategoryBlocks(sectionOrder, allParts, repoUrl)
  IN IF sections # <<>> THEN Trim(sections) ELSE <<NoChangesYet>>

\* the string returned, as lines; the empty string is <<>>
parseCommitsWithMultiplePrefixes(gitOutput, repoUrl) ==
  IF gitOutput = <<>> THEN <<>> ELSE sectionsOf(allPartsOf(gitOutput), repoUrl)

\* /## \[Unreleased\][\s\S]*?(?=## \[|$)/ : the line of the heading matched, or 0
unreleasedRegex(d) ==
  FirstIdx(1, Len(d), LAMBDA i : d[i].k = "h2" /\ d[i].br /\ d[i].lab = Unreleased)

\* where the lazy match stops: the next line holding `## [`, or 0 for the end
NextBracketHeading(d, i) == FirstIdx(i + 1, Len(d), LAMBDA j : d[j].k = "h2" /\ d[j].br)

\* (variant: no two consecutive line breaks are ever found)
doubleNewlineIndexNone(d) == 0

\* changelog.indexOf('\n\n'): the first empty line that follows a line and is
\* followed by a line break, or 0
doubleNewlineIndex(d) == FirstIdx(2, Len(d) - 1, LAMBDA m : d[m].k = "blank")

RECURSIVE trimEnd(_)
trimEnd(d) == IF d # <<>> /\ IsBlank(d[Len(d)]) THEN trimEnd(SubSeq(d, 1, Len(d) - 1)) ELSE d

\* the result of one call of populateChangelog: the document written, the
\* body put under the heading, the number logged and the log calls
PopulateOutcome(d, unreleasedContent, commitCount, logs, command) ==
  [err |-> NoError, doc |-> d, wrote |-> TRUE, body |-> unreleasedContent,
   commitCount |-> commitCount, logs |-> logs, command |-> command]

\* lines 216-218: the git log command, with the range from the latest tag when
\* there is one
gitLogCommand(latestTag) ==
  IF latestTag # <<>> THEN <<"git log ">> \o latestTag \o <<"..HEAD">> ELSE <<"git log">>

\* (variant: an empty rendering is written as it is)
unreleasedContentAsIs(commits) == commits

\* line 235
unreleasedContentOf(commits) == IF Trim(commits) # <<>> THEN commits ELSE <<NoChangesYet>>

\* lines 236-263: the section is put in the document and the count is logged
writeUnreleased(changelog, unreleasedContent, latestTag, log) ==
  LET newUnreleasedSection == <<UnreleasedHeading, Blank>> \o unreleasedContent \o <<Blank>>
      u == unreleasedRegex(changelog)
      stop == NextBracketHeading(changelog, u)
      m == doubleNewlineIndex(changelog)
      trimmed == trimEnd(changelog)
      updatedChangelog ==
        IF u # 0
        THEN SubSeq(changelog, 1, u - 1) \o newUnreleasedSection
             \o (IF stop = 0 THEN <<Blank>> ELSE SubSeq(changelog, stop, Len(changelog)))
        ELSE IF m = 0
        THEN (IF trimmed = <<>> THEN <<>> ELSE trimmed \o <<Blank>>)
             \o newUnreleasedSection \o <<Blank>>
        ELSE SubSeq(changelog, 1, m) \o newUnreleasedSection
             \o SubSeq(changelog, m + 1, Len(changelog))
      commitCount ==
        IF unreleasedContent = <<NoChangesYet>> THEN 0
        ELSE Len(SelectSeq(unreleasedContent, LAMBDA ln : ln.x # <<>> /\ ln.x[1] = "- "))
      logs == {"Populating", "Updated"}
              \cup (IF latestTag = <<>> THEN {"No tags found"} ELSE {"Latest tag"})
              \cup (IF log = Fails THEN {"No new commits found"} ELSE {})
  IN PopulateOutcome(updatedChangelog, unreleasedContent, commitCount, logs,
                     gitLogCommand(latestTag))

\* populateChangelog (lines 202-264).  latestTag is <<>> when git describe
\* throws; log is the output of the git log command, Fails when it throws
populateChangelog(latestTag, log, stored, githubRepository, remoteUrl) ==
  writeUnreleased(stored,
                  unreleasedContentOf(parseCommitsWithMultiplePrefixes(
                    IF log = Fails THEN <<>> ELSE TrimSpace(log),
                    getGitHubRepoUrl(githubRepository, remoteUrl))),
                  latestTag, log)

\* ---------------------------------------------------------------- the state machine
VARIABLES doc, env, last, git
vars == <<doc, env, last, git>>

None == [op |-> "none"]

\* git: the latest tag (<<>> when git describe finds none) and the output of
\* the git log command for the commits since then
NoGit == [tag |-> <<>>, log |-> <<>>]

Init ==
  /\ doc \in InitialDocs
  /\ env \in Envs
  /\ last = None
  /\ git = NoGit

\* one run of republish-changelog.ts (main, lines 226-245) for `version`;
\* `populated` is the body written by the populate run it directly follows;
\* `before` is the document as it was read, `prev` the version and outcome of
\* the promotion this one directly follows, when that one wrote the document
Promote(version) ==
  \E r \in {republishChangelog(version, doc, Today, env.repo, env.remote)} :
  /\ Len(doc) <= MaxLines
  /\ doc' = r.doc
  /\ last' = [op |-> "promote", version |-> version, before |-> doc, err |-> r.err,
              wrote |-> r.wrote, warns |-> r.warns, logs |-> r.logs, path |-> r.path,
              rewritten |-> r.rewritten,
              prev |-> IF last.op = "promote" /\ last.wrote THEN <<last.version, last.path>> ELSE <<>>,
              populated |-> IF last.op = "populate" THEN last.body ELSE <<>>]
  /\ UNCHANGED <<env, git>>

\* one run of extract-changelog.ts for `version`; `after` remembers the
\* promotion it directly follows
Extract(version) ==
  \E r \in {extractChangelog(version, doc)} :
  /\ last.op # "extract"
  /\ last' = [op |-> "extract", version |-> version, err |-> r.err, out |-> r.out, after |-> last]
  /\ UNCHANGED <<doc, env, git>>

Next ==
  \/ \E version \in PromoteVersions : Promote(version)
  \/ \E version \in ExtractVersions : Extract(version)

Spec == Init /\ [][Next]_vars

\* ---------------------------------------------------------------- the state machine of populate
PopulateInit ==
  /\ doc \in PopulateDocs
  /\ env \in PopulateEnvs
  /\ last = None
  /\ git \in [tag : {<<>>, WithV(V100)}, log : {<<>>, Fails}]

\* the number of records of a log
RecordCount(log) == Cardinality({i \in 1..Len(log) : log[i] = EndMark})

\* git commit: git log --pretty=format:"%H|%B|||END|||" lists the new commit
\* first, a line break between two records
Commit(body) ==
  /\ git.log # Fails
  /\ RecordCount(git.log) < MaxCommits
  /\ git' = [git EXCEPT !.log = Hash(RecordCount(git.log)) \o <<"|">> \o body \o <<EndMark>>
                                   \o (IF git.log = <<>> THEN <<>> ELSE <<"\n">> \o git.log)]
  /\ last' = [op |-> "commit"]
  /\ UNCHANGED <<doc, env>>

\* one run of populate-unreleased-changelog.ts
Populate ==
  \E r \in {populateChangelog(git.tag, git.log, doc, env.repo, env.remote)} :
  /\ Len(doc) <= MaxLines
  /\ doc' = r.doc
  /\ last' = [op |-> "populate", before |-> doc, err |-> r.err, wrote |-> r.wrote,
              body |-> r.body, commitCount |-> r.commitCount, logs |-> r.logs,
              command |-> r.command]
  /\ UNCHANGED <<env, git>>

PopulateNext ==
  \/ \E body \in CommitBodies : Commit(body)
  \/ Populate

PopulateSpec == PopulateInit /\ [][PopulateNext]_vars

\* ---------------------------------------------------------------- populate and promote on one document
\* the documents a release cycle starts from, each with at most one Unreleased
\* section and at most one section per version: the Unreleased section before
\* the section of 1.2.3, the same with an Unreleased heading without
\* brackets, with a version heading without brackets, a document without
\* Unreleased section, and the Unreleased section in last position
LedgerDocs ==
  { <<Title, Blank, UnreleasedHeading, Blank, Item(<<"- old line">>), Blank>>
      \o VersionSection(WithV(V123), TRUE),
    <<Title, Blank, H2(Unreleased, FALSE, <<>>), Blank, Item(<<"- old line">>), Blank>>
      \o VersionSection(WithV(V100), TRUE),
    <<Title, Blank, UnreleasedHeading, Blank, Item(<<"- old line">>), Blank>>
      \o VersionSection(V123, FALSE),
    <<Title, Blank>> \o VersionSection(WithV(V100), TRUE),
    <<Title, Blank>> \o VersionSection(WithV(V123), TRUE) \o <<UnreleasedHeading, Blank>> }

\* the output of git log: nothing, one commit, two commits
LedgerLogs ==
  { <<>>,
    Hash(0) \o <<"|", "feat", ":", " ", "add", " ", "x", EndMark>>,
    Hash(1) \o <<"|", "fix", "(", "api", ")", ":", " ", "bug", EndMark, "\n">>
      \o Hash(0) \o <<"|", "feat", ":", " ", "add", " ", "x", EndMark>> }

LedgerVersions == {V123, WithV(V100)}

LedgerInit ==
  /\ doc \in LedgerDocs
  /\ env = [repo |-> <<"owner/repo">>, remote |-> Fails]
  /\ last = None
  /\ git \in [tag : {<<>>}, log : LedgerLogs]

LedgerNext ==
  \/ Populate
  \/ \E version \in LedgerVersions : Promote(version)

LedgerSpec == LedgerInit /\ [][LedgerNext]_vars

\* ---------------------------------------------------------------- calls of validateAndNormalizeSemver
\* the strings handed to validateAndNormalizeSemver: a prefix, three numbers
\* with or without their dots, a prerelease part, a build part and an end,
\* each well formed or not
VersionStrings ==
  { pre \o a \o d1 \o b \o d2 \o c \o p \o m \o e :
      pre \in {<<>>, <<"v">>, <<"v", "v">>},
      a \in {<<"1">>, <<"1", "0">>, <<>>},
      d1 \in {<<".">>, <<>>},
      b \in {<<"2">>, <<>>},
      d2 \in {<<".">>},
      c \in {<<"3">>, <<"0", "3">>, <<"x">>},
      p \in {<<>>, <<"-">>, <<"-", "r", "c">>, <<"-", "r", "c", ".", "1">>, <<"-", "r", ".", ".", "1">>,
              <<"-", ".", "r">>, <<"-", "r", ".">>, <<"-", "-", "x">>},
      m \in {<<>>, <<"+">>, <<"+", "c", "1">>, <<"+", "c", ".", "-">>, <<"+", "c", "+", "1">>,
              <<"+", ".", "c">>},
      e \in {<<>>, <<".", "1">>} }

SemverInit ==
  /\ doc = <<Blank>>
  /\ env = [repo |-> NoValue, remote |-> Fails]
  /\ last = None
  /\ git = NoGit

\* one call; the result is the string returned, Invalid when the call throws
Validate(version) ==
  /\ last = None
  /\ last' = [op |-> "validate", version |-> version, out |-> validateAndNormalizeSemver(version)]
  /\ UNCHANGED <<doc, env, git>>

SemverNext == \E version \in VersionStrings : Validate(version)

SemverSpec == SemverInit /\ [][SemverNext]_vars

\* ---------------------------------------------------------------- vocabulary of the properties
NonBlank(ls) == SelectSeq(ls, LAMBDA l : ~IsBlank(l))
NoLinks(ls) == SelectSeq(ls, LAMBDA l : l.k # "link")

\* the version a version string denotes, and the two labels it may be written as
Norm(version) == IF version[1] = "v" THEN Tail(version) ELSE version
LabelsOf(version) == {Norm(version), WithV(Norm(version))}

\* the line of the first `## [label]` heading whose label is in `labels`, or 0
HeadingIdx(d, labels) ==
  FirstIdx(1, Len(d), LAMBDA i : d[i].k = "h2" /\ d[i].br /\ d[i].lab \in labels)

\* the line of the Unreleased heading, or 0
UnreleasedAt(d) == FirstIdx(1, Len(d), LAMBDA i : d[i].k = "h2" /\ d[i].lab = Unreleased)

\* a section ends before the next section heading, before a rule and the
\* empty lines in front of it, or at the end of the text
StartsRule(d, j) ==
  \E r \in j..Len(d) : d[r].k = "rule" /\ \A m \in j..(r - 1) : IsBlank(d[m])
SectionStop(d, i) == FirstIdx(i + 1, Len(d), LAMBDA j : d[j].k = "h2" \/ StartsRule(d, j))
SectionLines(d, i) ==
  IF SectionStop(d, i) = 0 THEN SubSeq(d, i + 1, Len(d)) ELSE SubSeq(d, i + 1, SectionStop(d, i) - 1)

\* a run of lines without its leading and trailing empty lines
Core(ls) ==
  LET first == FirstIdx(1, Len(ls), LAMBDA i : ~IsBlank(ls[i]))
      rest == IF first = 0 THEN <<>> ELSE SubSeq(ls, first, Len(ls))
      n == Len(rest)
      last1 == FirstIdx(1, n, LAMBDA i : ~IsBlank(rest[n + 1 - i]))
  IN IF first = 0 THEN <<>> ELSE SubSeq(rest, 1, n + 1 - last1)

\* the body of the section headed by line i
SectionBody(d, i) == Core(SectionLines(d, i))
UnreleasedBody(d) == IF UnreleasedAt(d) = 0 THEN <<>> ELSE SectionBody(d, UnreleasedAt(d))

\* the same without the reference-link lines that trail the document
SectionText(d, i) == Core(NoLinks(SectionLines(d, i)))

\* the next section heading after line i, or 0
NextHeading(d, i) == FirstIdx(i + 1, Len(d), LAMBDA j : d[j].k = "h2")

Promoted == last.op = "promote"
ValidPromote == Promoted /\ isValidSemver(last.version)
Failed == last.err # NoError /\ ~last.wrote /\ doc = last.before

\* ---------------------------------------------------------------- C1
\* C1: when the document has a heading for the target version and the
\* Unreleased body is not empty, the version section of the output is its
\* heading line, the former Unreleased body and then its prior content, the
\* Unreleased body is empty and the warning is emitted.
C1_MergeKeepsPriorContent ==
  (/\ ValidPromote
   /\ HeadingIdx(last.before, LabelsOf(last.version)) # 0
   /\ UnreleasedBody(last.before) # <<>>)
  => LET b == last.before
         hb == HeadingIdx(b, LabelsOf(last.version))
         h == HeadingIdx(doc, LabelsOf(last.version))
     IN /\ h # 0 /\ doc[h] = b[hb]
        /\ NonBlank(SectionText(doc, h))
             = NonBlank(NoLinks(UnreleasedBody(b))) \o NonBlank(SectionText(b, hb))
        /\ UnreleasedAt(doc) # 0 /\ SectionText(doc, UnreleasedAt(doc)) = <<>>
        /\ AlreadyExistsWarning \in last.warns

C3_PromoteIdempotent ==
  /\ (/\ ValidPromote
      /\ HeadingIdx(last.before, LabelsOf(last.version)) # 0
      /\ UnreleasedAt(last.before) # 0
      /\ UnreleasedBody(last.before) = <<>>)
     => (~last.wrote /\ doc = last.before)
  /\ (/\ ValidPromote
      /\ last.prev # <<>>
      /\ Norm(last.prev[1]) = Norm(last.version))
     => (last.path = "noop" /\ ~last.wrote /\ doc = last.before)

\* ---------------------------------------------------------------- C4
\* C4: a promotion with a version that is not valid semver, or of a document
\* without Unreleased section, or with an empty Unreleased body and no heading
\* for the target version, raises an error and does not write the document.
C4_FatalPathsWriteNothing ==
  Promoted =>
    /\ ~isValidSemver(last.version) => Failed
    /\ (isValidSemver(last.version) /\ UnreleasedAt(last.before) = 0) => Failed
    /\ (/\ isValidSemver(last.version)
        /\ UnreleasedAt(last.before) # 0
        /\ UnreleasedBody(last.before) = <<>>
        /\ HeadingIdx(last.before, LabelsOf(last.version)) = 0) => Failed

\* a promotion found a white-space Unreleased body and no heading for the version
C4_Witness ==
  /\ ValidPromote /\ last.err = EmptyUnreleased
  /\ UnreleasedAt(last.before) # 0
  /\ SectionLines(last.before, UnreleasedAt(last.before)) # <<>>
  /\ NextHeading(last.before, UnreleasedAt(last.before)) # 0

\* ---------------------------------------------------------------- C5
\* C5: a promotion with a valid version of a document that has an Unreleased
\* heading raises no error when the Unreleased body is not empty or the target
\* version has a heading.
C5_NoOtherFailure ==
  (/\ ValidPromote
   /\ UnreleasedAt(last.before) # 0
   /\ \/ UnreleasedBody(last.before) # <<>>
      \/ HeadingIdx(last.before, LabelsOf(last.version)) # 0)
  => last.err = NoError

\* ---------------------------------------------------------------- C6
LinkCount(d, lab) == Cardinality({i \in 1..Len(d) : d[i].k = "link" /\ d[i].lab = lab})
LinkLabels(d) == {d[i].lab : i \in {j \in 1..Len(d) : d[j].k = "link"}}

RepoUrl == getGitHubRepoUrl(env.repo, env.remote)
CanonicalTag(version) == WithV(Norm(version))

\* the targets of the link lines of d for label lab
TargetsOf(d, lab) == {d[i].x : i \in {j \in 1..Len(d) : d[j].k = "link" /\ d[j].lab = lab}}

\* a compare-style URL anchored to tag
IsCompareUrl(t, tag) ==
  \E n \in 1..Len(t) :
    SubSeq(t, n, Len(t)) \in {<<"/compare/">> \o tag \o <<"...HEAD">>,
                             <<"/-/compare/">> \o tag \o <<"...HEAD">>}

\* the tag of the topmost version heading of d (the empty tag when there is none)
MostRecentTag(d) ==
  LET i == FirstIdx(1, Len(d), LAMBDA j : d[j].k = "h2" /\ d[j].br /\ d[j].lab # Unreleased)
  IN IF i = 0 THEN <<>> ELSE CanonicalTag(d[i].lab)

C8_LinkTargetsByHost ==
  (Promoted /\ last.wrote) =>
    LET tag == CanonicalTag(last.version)
        h == HeadingIdx(doc, LabelsOf(last.version))
        written == {tag} \cup (IF h = 0 THEN {} ELSE {doc[h].lab})
        host == IF Includes(RepoUrl, "github.com") THEN "github"
                ELSE IF Includes(RepoUrl, "gitlab") THEN "gitlab" ELSE "other"
    IN /\ \A lab \in written :
            TargetsOf(doc, lab) =
              { CASE host = "github" -> RepoUrl \o <<"/releases/tag/">> \o tag
                  [] host = "gitlab" -> RepoUrl \o <<"/-/tags/">> \o tag
                  [] OTHER -> RepoUrl }
       /\ TargetsOf(doc, Unreleased) =
            { CASE host = "github" -> RepoUrl \o <<"/compare/">> \o tag \o <<"...HEAD">>
                [] host = "gitlab" -> RepoUrl \o <<"/-/compare/">> \o tag \o <<"...HEAD">>
                [] OTHER -> RepoUrl }

\* a bare version was promoted on a GitLab URL under a bare heading label
C8_Witness ==
  /\ Promoted /\ last.wrote /\ last.version = V123
  /\ Includes(RepoUrl, "gitlab")
  /\ HeadingIdx(doc, {V123}) # 0
  /\ LinkCount(doc, V123) = 1

\* ---------------------------------------------------------------- C9
\* the label of the topmost version heading of d, or the empty label
FirstVersionLabel(d) ==
  LET i == FirstIdx(1, Len(d), LAMBDA j : d[j].k = "h2" /\ d[j].br /\ d[j].lab # Unreleased)
  IN IF i = 0 THEN <<>> ELSE d[i].lab

\* C9: a promotion that creates the section labels it `v{normalized}` exactly
\* when the first version heading of the document starts with v or, without
\* any version heading, when the caller's version string starts with v, and
\* `{normalized}` otherwise; a promotion that finds a heading for the version
\* keeps that heading line; either way the output has a link line for the
\* tag and one for the heading label.
C9_HeadingLabelStyle ==
  (ValidPromote /\ last.wrote) =>
    LET b == last.before
        n == Norm(last.version)
        hb == HeadingIdx(b, LabelsOf(last.version))
        h == HeadingIdx(doc, LabelsOf(last.version))
        style == IF FirstVersionLabel(b) # <<>> THEN FirstVersionLabel(b) ELSE last.version
        expected == IF hb # 0 THEN b[hb].lab
                    ELSE IF style[1] = "v" THEN WithV(n) ELSE n
    IN /\ h # 0 /\ doc[h].lab = expected
       /\ hb # 0 => doc[h] = b[hb]
       /\ hb = 0 => doc[h].x = <<" - ">> \o Today
       /\ LinkCount(doc, WithV(n)) = 1
       /\ LinkCount(doc, expected) = 1

\* a v-prefixed version was promoted into a new section of a document whose
\* first version heading is bare: the label is bare and differs from the tag
C9_Witness ==
  /\ ValidPromote /\ last.path = "create" /\ last.version = WithV(V123)
  /\ FirstVersionLabel(last.before) = V123rc
  /\ HeadingIdx(doc, {V123}) # 0
  /\ LinkCount(doc, V123) = 1 /\ LinkCount(doc, WithV(V123)) = 1

\* ---------------------------------------------------------------- C10
InSeq(x, ls) == \E i \in 1..Len(ls) : ls[i] = x

\* 1.2.3 was extracted right after 1.2.3 was promoted onto a document whose
\* Unreleased section holds the Added line
RoundTrip ==
  /\ last.op = "extract" /\ last.version = V123
  /\ last.after.op = "promote" /\ last.after.version = V123
  /\ UnreleasedAt(last.after.before) # 0
  /\ InSeq(AddedItem, SectionLines(last.after.before, UnreleasedAt(last.after.before)))

Has123Heading(d) ==
  \E i \in 1..Len(d) :
    d[i].k = "h2" /\ (IsPrefix(V123, d[i].lab) \/ IsPrefix(WithV(V123), d[i].lab))

ExactHeadingIdx(d, version) ==
  FirstIdx(1, Len(d), LAMBDA i : d[i].k = "h2" /\ d[i].lab \in LabelsOf(version))

Extracted == last.op = "extract" /\ isValidSemver(last.version)

\* C11: an extraction fails with the no-section error and returns no text
\* whenever no heading of the document has exactly the label v or `v`+v, also
\* when a heading for a prerelease of v is there; it fails with the no-entry
\* error, a different one, when the heading for v is there and its body is
\* empty after trimming.
C11_ExtractErrors ==
  Extracted =>
    LET i == ExactHeadingIdx(doc, last.version) IN
    /\ NoSection # NoEntry
    /\ i = 0 => (last.err = NoSection /\ last.out = <<>>)
    /\ (i # 0 /\ SectionBody(doc, i) = <<>>) => (last.err = NoEntry /\ last.out = <<>>)

\* ---------------------------------------------------------------- C12
\* C12: a successful extraction of v returns the title line `# Release
\* v{normalized}`, an empty line, and the heading line and body of the section
\* of v as they stand in the document, trimmed; no heading and no body line
\* of another version section is in the result.
C12_ExtractReturnsOwnSection ==
  (Extracted /\ last.err = NoError) =>
    LET i == ExactHeadingIdx(doc, last.version) IN
    /\ i # 0
    /\ last.out = <<ReleaseTitle(CanonicalTag(last.version)), Blank>>
                     \o Core(<<doc[i]>> \o SectionLines(doc, i))
    /\ \A j \in 1..Len(last.out) :
         /\ last.out[j].k = "h2" => last.out[j].lab \in LabelsOf(last.version)
         /\ last.out[j].k = "item" => InSeq(last.out[j], SectionLines(doc, i))

\* ---------------------------------------------------------------- C13
\* the words of a commit log: every one is a type token the parser can produce
WordsOf(log) == IF log = Fails THEN {} ELSE {log[i] : i \in {j \in 1..Len(log) : IsWord(log[j])}}

Categories == {"### Added", "### Fixed", "### Changed", "### Removed", "### Security", Ignored}

\* C13: the classifier gives every word one of the six categories, whatever
\* its letter case: Added for feat, feature, add; Fixed for fix, bugfix;
\* Security for security; Removed for remove, removed, delete, deleted;
\* Ignored for ci, release, hotfix; Changed for every other word.
C13_ClassifierTotal ==
  \A w \in WordsOf(git.log) :
    LET t == toLowerCase(w)
        c == normalizeCommitType(w)
    IN /\ c \in Categories
       /\ c = (CASE t \in {"feat", "feature", "add"} -> "### Added"
                 [] t \in {"fix", "bugfix"} -> "### Fixed"
                 [] t = "security" -> "### Security"
                 [] t \in {"remove", "removed", "delete", "deleted"} -> "### Removed"
                 [] t \in {"ci", "release", "hotfix"} -> Ignored
                 [] OTHER -> "### Changed")

\* ---------------------------------------------------------------- the commit log, line by line
\* the records of a log, and the lines of the message of a record
RecordsOf(log) ==
  IF log = Fails THEN <<>>
  ELSE SelectSeq(Split(log, EndMark), LAMBDA e : \E i \in 1..Len(e) : ~IsSpace(e[i]))
MessageOf(record) ==
  LET bar == FirstIdx(1, Len(record), LAMBDA j : record[j] = "|")
  IN IF bar = 0 THEN <<>> ELSE SubSeq(record, bar + 1, Len(record))
MessageLines(record) == Split(MessageOf(record), "\n")
HashOf(record) ==
  LET bar == FirstIdx(1, Len(record), LAMBDA j : record[j] = "|")
  IN SelectSeq(SubSeq(record, 1, bar - 1), LAMBDA a : ~IsSpace(a))
Skipped(record) ==
  \E i \in 1..Len(record) : record[i] \in {"[skip-changelog]", "[SKIP-CHANGELOG]"}

\* a line `type(scope)?!?:` and what follows the colon, read on the line alone
HeadLen(ln) ==
  LET n == Len(ln)
      close == FirstIdx(3, n, LAMBDA j : ln[j] = ")")
      s == IF n >= 2 /\ ln[2] = "(" /\ close > 3 THEN close + 1 ELSE 2
      b == IF s <= n /\ ln[s] = "!" THEN s + 1 ELSE s
      c == FirstIdx(b, n, LAMBDA j : ln[j] # " ")
  IN IF n >= 2 /\ IsWord(ln[1]) /\ c # 0 /\ ln[c] = ":" THEN c ELSE 0
Words(s) == SelectSeq(s, LAMBDA a : a # " ")
DescriptionOf(ln) == SubSeq(ln, HeadLen(ln) + 1, Len(ln))

\* a line of the shape `type(scope)?!?: description`
IsFragmentLine(ln) == HeadLen(ln) # 0 /\ Words(DescriptionOf(ln)) # <<>>
TypeOf(ln) == ln[1]
ScopeOf(ln) ==
  IF ln[2] = "(" THEN SubSeq(ln, 3, FirstIdx(3, Len(ln), LAMBDA j : ln[j] = ")") - 1) ELSE <<>>
HasBang(ln) == \E j \in 2..HeadLen(ln) : ln[j] = "!" /\ (ln[j - 1] = ")" \/ j = 2)

\* the fragment lines of a log: pairs of record number and line number
FragmentsOf(log) ==
  UNION {{<<r, l>> : l \in {m \in 1..Len(MessageLines(RecordsOf(log)[r])) :
                                 IsFragmentLine(MessageLines(RecordsOf(log)[r])[m])}}
         : r \in 1..Len(RecordsOf(log))}
FragmentLine(log, p) == MessageLines(RecordsOf(log)[p[1]])[p[2]]

\* a rendered line that carries this description
Renders(ln, description) ==
  ln.k = "item" /\ Words(SubSeq(ln.x, 2, 2 * Len(Words(description)))) = Words(description)

Populated == last.op = "populate"

\* ---------------------------------------------------------------- C14
\* C14: no fragment of type ci, release or hotfix, in any letter case, with
\* or without scope, with or without `!`, has a line in the populated body.
C14_IgnoredNeverRendered ==
  Populated =>
    \A p \in FragmentsOf(git.log) :
      toLowerCase(TypeOf(FragmentLine(git.log, p))) \in {"ci", "release", "hotfix"}
        => \A i \in 1..Len(last.body) :
             ~Renders(last.body[i], DescriptionOf(FragmentLine(git.log, p)))

\* ---------------------------------------------------------------- C15
\* C15: when no line stands under Added, Fixed, Changed, Removed or Security,
\* the body populate writes under the Unreleased heading is exactly
\* `No changes yet.`, and populate raises no error.
C15_PlaceholderWhenNoCategory ==
  (Populated /\ \A i \in 1..Len(last.body) :
                  ~(last.body[i].k = "h3" /\ \E j \in 1..5 : last.body[i].x = <<sectionOrder[j]>>))
  => /\ last.err = NoError /\ last.wrote
     /\ last.body = <<NoChangesYet>>
     /\ UnreleasedAt(doc) # 0 /\ SectionBody(doc, UnreleasedAt(doc)) = <<NoChangesYet>>

\* ---------------------------------------------------------------- C16
RECURSIVE JoinRecords(_)
JoinRecords(records) ==
  IF records = <<>> THEN <<>> ELSE Head(records) \o <<EndMark>> \o JoinRecords(Tail(records))

\* the log without the records that hold the skip marker
WithoutSkipped(log) == JoinRecords(SelectSeq(RecordsOf(log), LAMBDA r : ~Skipped(r)))

\* C16: a record whose message holds `[skip-changelog]` anywhere has no line
\* in the populated body, however many conventional-commit lines it holds,
\* and the body is the one populate writes for the log without such records.
C16_SkipMarkerExcludes ==
  (Populated /\ git.log # Fails) =>
    /\ \A r \in 1..Len(RecordsOf(git.log)) :
         Skipped(RecordsOf(git.log)[r]) =>
           \A l \in 1..Len(MessageLines(RecordsOf(git.log)[r])) :
             \A i \in 1..Len(last.body) :
               LET ln == MessageLines(RecordsOf(git.log)[r])[l] IN
               /\ IsFragmentLine(ln) => ~Renders(last.body[i], DescriptionOf(ln))
               /\ Words(ln) # <<>> => ~Renders(last.body[i], ln)
    /\ last.body = populateChangelog(git.tag, WithoutSkipped(git.log), last.before,
                                     env.repo, env.remote).body

\* a log with a record skipped for a marker at the end of its message and a
\* record that is rendered
C16_Witness ==
  /\ Populated /\ git.log # Fails
  /\ \E r \in 1..Len(RecordsOf(git.log)) :
       /\ Skipped(RecordsOf(git.log)[r])
       /\ IsFragmentLine(MessageLines(RecordsOf(git.log)[r])[1])
  /\ \E r \in 1..Len(RecordsOf(git.log)) : ~Skipped(RecordsOf(git.log)[r])
  /\ last.body # <<NoChangesYet>>

\* ---------------------------------------------------------------- C17
RECURSIVE LeadingWords(_)
\* a text from its first word on, runs of blanks collapsed, no blank at the end
Normalized(s) ==
  LET first == FirstIdx(1, Len(s), LAMBDA i : s[i] # " ")
      n == Len(s)
      back == FirstIdx(1, n, LAMBDA i : s[n + 1 - i] # " ")
  IN IF first = 0 THEN <<>> ELSE LeadingWords(SubSeq(s, first, n + 1 - back))
LeadingWords(s) ==
  IF s = <<>> THEN <<>>
  ELSE IF Head(s) = " " THEN (IF Len(s) > 1 /\ s[2] = " " THEN LeadingWords(Tail(s))
                              ELSE <<" ">> \o LeadingWords(Tail(s)))
  ELSE <<Head(s)>> \o LeadingWords(Tail(s))

\* the record a fragment line stands for
RecordOfLine(ln, sha) ==
  [type |-> TypeOf(ln), scope |-> ScopeOf(ln), description |-> Normalized(DescriptionOf(ln)),
   sha |-> sha, breaking |-> HasBang(ln)]

\* the records of the fragment lines of a message, in line order
ExpectedParts(message, sha) ==
  LET lines == SelectSeq(Split(message, "\n"), IsFragmentLine)
  IN [i \in 1..Len(lines) |-> RecordOfLine(lines[i], sha)]

\* C17: for every commit message the parser returns one record per line of
\* the shape `type(scope)?!?: description`, in line order, with the type,
\* scope and description of that line (white space collapsed and trimmed)
\* and the SHA passed in; other lines, also a line with type and colon and no
\* description, give no record.
C17_OneRecordPerLine ==
  \A r \in 1..Len(RecordsOf(git.log)) :
    LET record == RecordsOf(git.log)[r] IN
    extractConventionalCommitParts(MessageOf(record), HashOf(record))
      = ExpectedParts(MessageOf(record), HashOf(record))

\* ---------------------------------------------------------------- the blocks of a populated body
\* the fragments of a log: the records the parser returns for the messages
\* that are not skipped (and the first line of a message without any)
FragmentSet(log) ==
  IF log = Fails THEN {}
  ELSE {allPartsOf(TrimSpace(log))[i] : i \in 1..Len(allPartsOf(TrimSpace(log)))}

BreakingTitle == "### (warning) BREAKING CHANGES"
CategoryTitles == {sectionOrder[j] : j \in 1..Len(sectionOrder)}

\* the line of the heading of a block, or 0, and the lines of the block
BlockStart(body, title) ==
  FirstIdx(1, Len(body), LAMBDA i : body[i].k = "h3" /\ body[i].x = <<title>>)
BlockIdx(body, title) ==
  IF BlockStart(body, title) = 0 THEN {}
  ELSE {i \in BlockStart(body, title) + 1..Len(body) :
          \A j \in BlockStart(body, title) + 1..i : body[j].k = "item"}

\* a rendered line of this fragment: its description first, its SHA further on
Mentions(x, word) == \E i \in 1..Len(x) : i + Len(word) - 1 <= Len(x) /\ SubSeq(x, i, i + Len(word) - 1) = word
ShowsPart(ln, part) ==
  /\ ln.k = "item"
  /\ IsPrefix(<<"- ">> \o part.description, ln.x)
  /\ Mentions(ln.x, part.sha)
LinesOf(body, title, part) == {i \in BlockIdx(body, title) : ShowsPart(body[i], part)}
HasMarker(ln) == \E j \in 1..Len(ln.x) : ln.x[j] = " (warning) BREAKING"

\* no block heading stands before the heading of the BREAKING CHANGES block
BreakingBlockFirst(body) ==
  \A i \in 1..Len(body) :
    (body[i].k = "h3" /\ body[i].x # <<BreakingTitle>>) => BlockStart(body, BreakingTitle) < i

\* ---------------------------------------------------------------- C18
\* C18 (as stated): every fragment with `!` has one line in the BREAKING
\* CHANGES block and one line, with the BREAKING marker, in the block of its
\* category; the BREAKING CHANGES block comes before every category block; a
\* fragment without `!` has no line in the BREAKING CHANGES block and no marker.
C18_BreakingInBothBlocks ==
  Populated =>
    /\ BreakingBlockFirst(last.body)
    /\ \A part \in FragmentSet(git.log) :
         LET c == normalizeCommitType(part.type) IN
         IF part.breaking
         THEN /\ Cardinality(LinesOf(last.body, BreakingTitle, part)) = 1
              /\ c \in CategoryTitles
              /\ Cardinality(LinesOf(last.body, c, part)) = 1
              /\ \A i \in LinesOf(last.body, c, part) : HasMarker(last.body[i])
         ELSE /\ LinesOf(last.body, BreakingTitle, part) = {}
              /\ \A i \in 1..Len(last.body) : ShowsPart(last.body[i], part) => ~HasMarker(last.body[i])

\* C18 (amended): every fragment with `!` whose type the classifier maps to
\* one of the five categories has one line in the BREAKING CHANGES block and
\* one line, with the BREAKING marker, in the block of that category, and no
\* line in another category block; the BREAKING CHANGES block comes before
\* every category block; a fragment without `!` has no line in the BREAKING
\* CHANGES block and no marker.
C18_BreakingSurfacing ==
  Populated =>
    /\ BreakingBlockFirst(last.body)
    /\ \A part \in FragmentSet(git.log) :
         LET c == normalizeCommitType(part.type) IN
         IF part.breaking
         THEN c \in CategoryTitles =>
                /\ Cardinality(LinesOf(last.body, BreakingTitle, part)) = 1
                /\ Cardinality(LinesOf(last.body, c, part)) = 1
                /\ \A i \in LinesOf(last.body, c, part) : HasMarker(last.body[i])
                /\ \A t \in CategoryTitles \ {c} : LinesOf(last.body, t, part) = {}
         ELSE /\ LinesOf(last.body, BreakingTitle, part) = {}
              /\ \A i \in 1..Len(last.body) : ShowsPart(last.body[i], part) => ~HasMarker(last.body[i])

\* a body with the BREAKING CHANGES block and a category block, for a log with
\* a breaking fragment of one of the five categories and a fragment without `!`
C18_Witness ==
  /\ Populated
  /\ BlockStart(last.body, BreakingTitle) = 1
  /\ \E part \in FragmentSet(git.log) :
       /\ part.breaking /\ normalizeCommitType(part.type) \in CategoryTitles
       /\ \E i \in LinesOf(last.body, normalizeCommitType(part.type), part) : HasMarker(last.body[i])
  /\ \E part \in FragmentSet(git.log) :
       /\ ~part.breaking
       /\ \E t \in CategoryTitles : LinesOf(last.body, t, part) # {}

\* ---------------------------------------------------------------- C19
\* the fragments of a log in the order of the log
FragmentSeq(log) == IF log = Fails THEN <<>> ELSE allPartsOf(TrimSpace(log))

\* the category of a type token, by the table of types
CategoryOf(type) ==
  LET t == toLowerCase(type)
  IN CASE t \in {"feat", "feature", "add"} -> "### Added"
       [] t \in {"fix", "bugfix"} -> "### Fixed"
       [] t = "security" -> "### Security"
       [] t \in {"remove", "removed", "delete", "deleted"} -> "### Removed"
       [] t \in {"ci", "release", "hotfix"} -> Ignored
       [] OTHER -> "### Changed"

\* C19: in the populated body the category blocks stand in the order Added,
\* Fixed, Changed, Removed, Security; a category without a line has no block;
\* inside a block the lines stand in the order of their fragments in the log
\* (entry order, then line order inside one message); every fragment that is
\* not Ignored has a line in exactly one category block, the one of its type.
C19_CategoryBlocksInOrder ==
  Populated =>
    LET body == last.body
        parts == FragmentSeq(git.log)
    IN /\ \A j, k \in 1..Len(sectionOrder) :
            (j < k /\ BlockStart(body, sectionOrder[j]) # 0 /\ BlockStart(body, sectionOrder[k]) # 0)
              => BlockStart(body, sectionOrder[j]) < BlockStart(body, sectionOrder[k])
       /\ \A t \in CategoryTitles :
            BlockStart(body, t) # 0 =>
              /\ BlockIdx(body, t) # {}
              /\ \A i \in BlockIdx(body, t) :
                   \E a \in 1..Len(parts) : CategoryOf(parts[a].type) = t /\ ShowsPart(body[i], parts[a])
       /\ \A a \in 1..Len(parts) :
            CategoryOf(parts[a].type) # Ignored =>
              /\ Cardinality(LinesOf(body, CategoryOf(parts[a].type), parts[a])) = 1
              /\ \A t \in CategoryTitles \ {CategoryOf(parts[a].type)} :
                   LinesOf(body, t, parts[a]) = {}
       /\ \A a, b \in 1..Len(parts) :
            (a < b /\ CategoryOf(parts[a].type) = CategoryOf(parts[b].type))
              => \A i \in LinesOf(body, CategoryOf(parts[a].type), parts[a]) :
                   \A j \in LinesOf(body, CategoryOf(parts[b].type), parts[b]) : i < j

\* ---------------------------------------------------------------- C20
\* the fragments of a log, each with the hash of its entry
FragmentsWithHash(log) ==
  UNION {{<<PartsOfEntry(RecordsOf(log)[r])[i], HashOf(RecordsOf(log)[r])>> :
            i \in 1..Len(PartsOfEntry(RecordsOf(log)[r]))} : r \in 1..Len(RecordsOf(log))}

FirstSeven(hash) == SubSeq(hash, 1, Min({7, Len(hash)}))

\* the commit reference of a line
ReferenceTo(sha, repoUrl) ==
  IF repoUrl # <<>>
  THEN <<" ([">> \o sha \o <<"](">> \o repoUrl \o <<"/commit/">> \o sha \o <<"))">>
  ELSE <<" (">> \o sha \o <<")">>

\* `- {description}`, the scope when there is one, the marker when asked for,
\* the commit reference
RenderedAs(part, hash, marker, repoUrl) ==
  <<"- ">> \o part.description
    \o (IF part.scope # <<>> THEN <<" (">> \o part.scope \o <<")">> ELSE <<>>)
    \o (IF marker THEN <<" (warning) BREAKING">> ELSE <<>>)
    \o ReferenceTo(FirstSeven(hash), repoUrl)

HasLinkSyntax(ln) == \E j \in 1..Len(ln.x) : ln.x[j] \in {" ([", "]("}

\* C20 (as stated): every rendered change line is `- {description}`, then
\* ` ({scope})` exactly when the fragment has a scope, then the BREAKING marker
\* exactly when the fragment is breaking, then the commit reference: a link to
\* `{repoUrl}/commit/{sha}` when the repository URL is not empty and ` ({sha})`
\* when it is, sha being the first seven characters of the hash of the entry;
\* with an empty repository URL no rendered line holds link syntax.
C20_EveryLineFormat ==
  Populated =>
    \A i \in 1..Len(last.body) :
      last.body[i].k = "item" =>
        /\ \E f \in FragmentsWithHash(git.log) :
             last.body[i].x = RenderedAs(f[1], f[2], f[1].breaking, RepoUrl)
        /\ RepoUrl = <<>> => ~HasLinkSyntax(last.body[i])

\* C20 (amended): as stated for the lines of the category blocks; a line of
\* the BREAKING CHANGES block has the same parts without the BREAKING marker.
C20_LineFormat ==
  Populated =>
    \A i \in 1..Len(last.body) :
      last.body[i].k = "item" =>
        /\ \E f \in FragmentsWithHash(git.log) :
             last.body[i].x = RenderedAs(f[1], f[2],
                                         f[1].breaking /\ i \notin BlockIdx(last.body, BreakingTitle),
                                         RepoUrl)
        /\ RepoUrl = <<>> => ~HasLinkSyntax(last.body[i])

\* a body written with an empty repository URL that holds a line with scope
\* and marker and a line with neither
C20_Witness ==
  /\ Populated /\ RepoUrl = <<>>
  /\ \E i \in 1..Len(last.body) :
       /\ last.body[i].k = "item" /\ HasMarker(last.body[i])
       /\ \E f \in FragmentsWithHash(git.log) :
            f[1].scope # <<>> /\ last.body[i].x = RenderedAs(f[1], f[2], TRUE, RepoUrl)
  /\ \E i \in 1..Len(last.body) :
       /\ last.body[i].k = "item" /\ ~HasMarker(last.body[i])
       /\ \E f \in FragmentsWithHash(git.log) :
            f[1].scope = <<>> /\ ~f[1].breaking /\ last.body[i].x = RenderedAs(f[1], f[2], FALSE, RepoUrl)

\* ---------------------------------------------------------------- C21
\* a text without the blanks at its ends
Stripped(s) ==
  LET first == FirstIdx(1, Len(s), LAMBDA i : s[i] # " ")
      n == Len(s)
      back == FirstIdx(1, n, LAMBDA i : s[n + 1 - i] # " ")
  IN IF first = 0 THEN <<>> ELSE SubSeq(s, first, n + 1 - back)

\* the first line of a message that is not empty, or <<>>
FirstNonEmptyLine(record) ==
  LET lines == MessageLines(record)
      i == FirstIdx(1, Len(lines), LAMBDA j : Words(lines[j]) # <<>>)
  IN IF i = 0 THEN <<>> ELSE Stripped(lines[i])

HasFragmentLine(record) ==
  \E l \in 1..Len(MessageLines(record)) : IsFragmentLine(MessageLines(record)[l])

\* the lines of a body that refer to the commit of a record
LinesOfRecord(body, record) ==
  {i \in 1..Len(body) : body[i].k = "item" /\ Mentions(body[i].x, FirstSeven(HashOf(record)))}

\* the line the fallback renders for a record
FallbackLine(record, repoUrl) ==
  <<"- ">> \o FirstNonEmptyLine(record) \o ReferenceTo(FirstSeven(HashOf(record)), repoUrl)

\* C21: a commit entry without the skip marker whose message has no line of
\* the shape `type(scope)?!?: description` has exactly one line in the
\* populated body, under `### Changed`, with the first non-empty line of the
\* message as its description; an entry with such a line has no fallback line.
C21_MiscFallback ==
  (Populated /\ git.log # Fails) =>
    \A r \in 1..Len(RecordsOf(git.log)) :
      LET record == RecordsOf(git.log)[r]
          mine == LinesOfRecord(last.body, record)
      IN (~Skipped(record) /\ FirstNonEmptyLine(record) # <<>>) =>
           IF HasFragmentLine(record)
           THEN \A i \in mine : last.body[i].x # FallbackLine(record, RepoUrl)
           ELSE /\ Cardinality(mine) = 1
                /\ mine \subseteq BlockIdx(last.body, "### Changed")
                /\ \A i \in mine : last.body[i].x = FallbackLine(record, RepoUrl)

\* ---------------------------------------------------------------- C22
\* the line of the `## [Unreleased]` heading, or 0
BracketUnreleasedAt(d) ==
  FirstIdx(1, Len(d), LAMBDA i : d[i].k = "h2" /\ d[i].br /\ d[i].lab = Unreleased)

\* the section populate writes: heading, empty line, body, empty line
NewSection(body) == <<UnreleasedHeading, Blank>> \o body \o <<Blank>>

\* the first empty line of a text, or 0 (the last element of a text that ends
\* with a line break stands for that line break, not for a line)
FirstBlankLine(d) == FirstIdx(1, Len(d) - 1, LAMBDA i : IsBlank(d[i]))
\* the first empty line that follows another line, or 0
FirstBlankAfterLine(d) == FirstIdx(2, Len(d) - 1, LAMBDA i : IsBlank(d[i]))

\* the Unreleased sections of d that hold the body
SectionsHolding(d, body) ==
  {i \in 1..Len(d) : /\ d[i].k = "h2" /\ d[i].lab = Unreleased
                      /\ IsPrefix(body, SectionBody(d, i))}

\* the placement of the new section in `after`, given the document `before`,
\* the rendered body and the line b after which a new section is inserted
\* (0: there is no such line)
PlacedAt(before, after, body, b) ==
  LET u == BracketUnreleasedAt(before) IN
  /\ IF u # 0
     THEN /\ SubSeq(after, 1, u) = SubSeq(before, 1, u)
          /\ SectionBody(after, u) = body
     ELSE IF b # 0
     THEN after = SubSeq(before, 1, b) \o NewSection(body) \o SubSeq(before, b + 1, Len(before))
     ELSE IF trimEnd(before) # <<>>
     THEN after = trimEnd(before) \o <<Blank>> \o NewSection(body) \o <<Blank>>
     ELSE after = NewSection(body) \o <<Blank>>
  /\ Cardinality(SectionsHolding(after, body)) = 1

UnreleasedHeadings(d) == {i \in 1..Len(d) : d[i].k = "h2" /\ d[i].lab = Unreleased}

\* the headings of a document for the version of a label
HeadingsOfVersion(d, lab) ==
  {i \in 1..Len(d) : d[i].k = "h2" /\ d[i].lab # Unreleased /\ Norm(d[i].lab) = Norm(lab)}

WellFormed(d) ==
  /\ Cardinality(UnreleasedHeadings(d)) = 1
  /\ \A i \in 1..Len(d) :
       (d[i].k = "h2" /\ d[i].lab # Unreleased) => Cardinality(HeadingsOfVersion(d, d[i].lab)) = 1

Passed == last.op \in {"populate", "promote"} /\ last.wrote

\* C23: from a document with at most one Unreleased section and at most one
\* section per version, after every populate or promote pass that writes the
\* document it has exactly one Unreleased heading (with or without brackets)
\* and at most one heading per version, `vX.Y.Z` and `X.Y.Z`, bracketed or
\* not, being the same version.
C23_OneSectionPerLabel == Passed => WellFormed(doc)

\* ---------------------------------------------------------------- C24
Numerals == {"0", "1", "2", "3", "4", "5", "6", "7", "8", "9"}
IdentifierChars == Numerals \cup {"r", "c", "v", "x", "-"}

\* the pieces of s between the separators sep
RECURSIVE Pieces(_, _)
Pieces(s, sep) ==
  LET i == FirstIdx(1, Len(s), LAMBDA j : s[j] = sep)
  IN IF i = 0 THEN <<s>> ELSE <<SubSeq(s, 1, i - 1)>> \o Pieces(SubSeq(s, i + 1, Len(s)), sep)

AllIn(s, C) == \A i \in 1..Len(s) : s[i] \in C
IsNumber(s) == s # <<>> /\ AllIn(s, Numerals)
\* a dot-separated list of non-empty identifiers
IsIdentifiers(s) ==
  \A k \in 1..Len(Pieces(s, ".")) :
    Pieces(s, ".")[k] # <<>> /\ AllIn(Pieces(s, ".")[k], IdentifierChars)

\* MAJOR.MINOR.PATCH[-prerelease][+buildmetadata]
IsBareSemver(s) ==
  LET plus == FirstIdx(1, Len(s), LAMBDA j : s[j] = "+")
      front == IF plus = 0 THEN s ELSE SubSeq(s, 1, plus - 1)
      build == IF plus = 0 THEN <<>> ELSE SubSeq(s, plus + 1, Len(s))
      dash == FirstIdx(1, Len(front), LAMBDA j : front[j] = "-")
      core == IF dash = 0 THEN front ELSE SubSeq(front, 1, dash - 1)
      prerelease == IF dash = 0 THEN <<>> ELSE SubSeq(front, dash + 1, Len(front))
  IN /\ Len(Pieces(core, ".")) = 3
     /\ \A k \in 1..3 : IsNumber(Pieces(core, ".")[k])
     /\ dash # 0 => IsIdentifiers(prerelease)
     /\ plus # 0 => IsIdentifiers(build)

\* [v]MAJOR.MINOR.PATCH[-prerelease][+buildmetadata]
IsSemverForm(s) ==
  IF s # <<>> /\ s[1] = "v" THEN IsBareSemver(Tail(s)) ELSE IsBareSemver(s)

Validated == last.op = "validate"

\* C24: validateAndNormalizeSemver(s) returns s without its leading `v` when
\* s has the form [v]MAJOR.MINOR.PATCH[-prerelease][+buildmetadata] and throws
\* for every other string; the result has the form itself, has no leading
\* `v`, is returned unchanged when normalized again, and is also the result
\* for `v` followed by it.
C24_SemverNormalization ==
  Validated =>
    IF IsSemverForm(last.version)
    THEN /\ last.out # Invalid
         /\ last.out = (IF last.version[1] = "v" THEN Tail(last.version) ELSE last.version)
         /\ IsSemverForm(last.out)
         /\ last.out[1] # "v"
         /\ validateAndNormalizeSemver(last.out) = last.out
         /\ validateAndNormalizeSemver(<<"v">> \o last.out) = last.out
    ELSE last.out = Invalid

\* a version written with `v`, prerelease and build metadata is normalized
C24_Witness ==
  /\ Validated
  /\ last.version = <<"v", "1", "0", ".", "2", ".", "3", "-", "r", "c", ".", "1", "+", "c", ".", "-">>
  /\ last.out = Tail(last.version)

\* ---------------------------------------------------------------- C25
\* C25: populate raises no error and writes the document once whatever the
\* commit source does: when the lookup of the latest tag fails the git log
\* command has no range (all commits); when the git log command fails the
\* log is taken as empty; with an empty log the body is `No changes yet.`.
C25_CommitSourceNeverFatal ==
  Populated =>
    /\ last.err = NoError /\ last.wrote
    /\ git.tag = <<>> => last.command = <<"git log">>
    /\ git.log = Fails =>
         doc = populateChangelog(git.tag, <<>>, last.before, env.repo, env.remote).doc
    /\ git.log \in {<<>>, Fails} =>
         /\ last.body = <<NoChangesYet>>
         /\ BracketUnreleasedAt(doc) # 0
         /\ SectionBody(doc, BracketUnreleasedAt(doc)) = <<NoChangesYet>>

\* a run in which both lookups fail and the placeholder is written
C25_Witness ==
  /\ Populated
  /\ git.tag = <<>> /\ git.log = Fails
  /\ "No tags found" \in last.logs /\ "No new commits found" \in last.logs
  /\ last.wrote /\ doc # last.before
  /\ last.body = <<NoChangesYet>>

\* ---------------------------------------------------------------- C26
AfterPlaceholder == ValidPromote /\ last.populated = <<NoChangesYet>>

\* the sections of d for a version, with or without brackets
SectionsOfVersion(d, version) ==
  {i \in 1..Len(d) : d[i].k = "h2" /\ d[i].lab \in LabelsOf(version)}

\* C26: a promotion of v that directly follows a populate run which wrote the
\* body `No changes yet.` has nothing to promote: afterwards no section for v
\* holds the placeholder, and a section for v that was there before has the
\* body it had.
C26_PlaceholderNeverPromoted ==
  AfterPlaceholder =>
    /\ \A i \in SectionsOfVersion(doc, last.version) : ~InSeq(NoChangesYet, SectionLines(doc, i))
    /\ \A i \in SectionsOfVersion(last.before, last.version) :
         \E j \in SectionsOfVersion(doc, last.version) :
           SectionText(doc, j) = SectionText(last.before, i)

\* ---------------------------------------------------------------- C27
RECURSIVE FrameFrom(_, _, _)
\* the lines of d from line i on that populate has to keep: the headings and
\* the lines of the version sections, and the reference-link lines
FrameFrom(d, i, inVersion) ==
  IF i > Len(d) THEN <<>>
  ELSE LET now == IF d[i].k = "h2" THEN d[i].lab # Unreleased ELSE inVersion
       IN (IF ~IsBlank(d[i]) /\ (now \/ d[i].k = "link") THEN <<d[i]>> ELSE <<>>)
          \o FrameFrom(d, i + 1, now)
FrameOf(d) == FrameFrom(d, 1, FALSE)

\* C27: populate changes the Unreleased section only: the version sections
\* of the document read (heading and body, the heading with or without
\* brackets) and its reference-link lines are in the document written,
\* unchanged and in the same order, also when the Unreleased section is the
\* last one.
C27_PopulateKeepsTheRest == Populated => FrameOf(doc) = FrameOf(last.before)

\* ---------------------------------------------------------------- C28
Merged == ValidPromote /\ last.path = "merge"

\* the version headings of d whose label begins with the target version
\* without being it
BeginsWithOnly(d, version) ==
  {i \in 1..Len(d) : /\ d[i].k = "h2"
                      /\ d[i].lab \notin LabelsOf(version)
                      /\ IsPrefix(Norm(version), Norm(d[i].lab))}

\* C28: in the merge path the section that receives the Unreleased body is
\* the section whose heading label is the target version, with or without
\* `v`; a section whose label only begins with the target version (1.2.3-rc
\* when 1.2.3 is promoted) keeps its heading and its body, also when it
\* stands earlier in the document.
C28_MergeIntoExactSection ==
  Merged =>
    LET b == last.before
        h == HeadingIdx(doc, LabelsOf(last.version))
    IN /\ h # 0
       /\ IsPrefix(NonBlank(NoLinks(UnreleasedBody(b))), NonBlank(SectionText(doc, h)))
       /\ \A i \in BeginsWithOnly(b, last.version) :
            \E j \in BeginsWithOnly(doc, last.version) :
              doc[j] = b[i] /\ SectionText(doc, j) = SectionText(b, i)

\* ---------------------------------------------------------------- C29
\* the lines of d from line i on that a promotion of `version` has no reason
\* to touch: empty lines apart, every line outside the Unreleased body and
\* outside the section of the target version (the Unreleased heading itself
\* stays), and among the reference-link lines those of other labels; `inside`
\* tells whether line i follows the Unreleased heading or a heading of the
\* target version with no other heading or rule between
RECURSIVE PromoteFrameFrom(_, _, _, _)
PromoteFrameFrom(d, i, inside, version) ==
  IF i > Len(d) THEN <<>>
  ELSE LET ln == d[i]
           target == ln.k = "h2" /\ ln.lab \in LabelsOf(version)
           now == IF ln.k = "h2" THEN ln.lab = Unreleased \/ target
                  ELSE IF ln.k = "rule" THEN FALSE
                  ELSE inside
           kept == IF IsBlank(ln) THEN FALSE
                   ELSE IF ln.k = "link"
                        THEN ln.lab # Unreleased /\ ln.lab \notin LabelsOf(version)
                   ELSE IF ln.k = "h2" THEN ~target
                   ELSE ~now
       IN (IF kept THEN <<ln>> ELSE <<>>) \o PromoteFrameFrom(d, i + 1, now, version)
PromoteFrame(d, version) == PromoteFrameFrom(d, 1, FALSE, version)

\* C29: a promotion changes the Unreleased body, the section of the target
\* version and the reference-link lines of Unreleased and of the target's
\* labels only: every other version section, heading and body, and every
\* other line, the link lines of other versions included, is in the document
\* written, unchanged and in the same order.
C29_PromoteKeepsTheRest ==
  ValidPromote => PromoteFrame(doc, last.version) = PromoteFrame(last.before, last.version)

\* ---------------------------------------------------------------- C30
\* the document a second populate run would write from the current state
PopulatedAgain == populateChangelog(git.tag, git.log, doc, env.repo, env.remote).doc

\* C30: a second populate run with the same commit log and the same
\* repository URL writes the document the first run wrote.
C30_PopulateIdempotent == Populated => PopulatedAgain = doc

====
